---------------------------- MODULE Spec2Model ----------------------------
(***************************************************************************)
(* Model of the vegetable-rate analysis scripts: the rate parsers, the     *)
(* cleaning stages, the monthly aggregations, the min-max normalisers and  *)
(* the top-N rankings of vegetable_analysis.py, profitable_vegetables.py,  *)
(* find_top_vegetables.py and top_vegetables_june.py.                      *)
(*                                                                         *)
(* A float is modelled as an exact fraction <<n, d>> in lowest terms with  *)
(* d > 0; the non-finite floats are <<0, 0>> (NaN), <<1, 0>> (+inf) and    *)
(* <<-1, 0>> (-inf).  A cell text is a sequence of one-character strings.  *)
(* pandas operations are modelled by their documented behaviour: groupby   *)
(* sorts its keys, mean / sum / min / max skip NaN, nlargest(keep='first') *)
(* orders descending, keeps the original order among equal values and      *)
(* puts NaN last.                                                          *)
(***************************************************************************)
EXTENDS Integers, Sequences, FiniteSets, TLC

VARIABLES
    table,      \* the rows read from the sheet (the loader's DataFrame)
    pc,         \* which operation produced the current frames
    cleaned,    \* the frame after the script's parsing and filtering
    monthly,    \* the frame of per-group summaries
    scored,     \* profitable_vegetables: the summaries with their scores
    result,     \* the ranking result
    arg,        \* the criteria and n the ranking was called with
    raised,     \* whether the operation ended in an uncaught exception
    report      \* the rows of the report analyze() returns

vars == <<table, pc, cleaned, monthly, scored, result, arg, raised, report>>

---------------------------------------------------------------------------
(* Bounds of the model *)

MaxRows == 2

---------------------------------------------------------------------------
(* Floats as exact fractions *)

NaN == <<0, 0>>

PosInf == <<1, 0>>

NegInf == <<-1, 0>>

IsNaN(x) == x = NaN

IsFinite(x) == x[2] # 0

Abs(i) == IF i < 0 THEN -i ELSE i

RECURSIVE GCD(_, _)
GCD(a, b) == IF b = 0 THEN a ELSE GCD(b, a % b)

Frac(n, d) ==
    LET g == GCD(Abs(n), Abs(d))
        s == IF d < 0 THEN -1 ELSE 1
    IN  <<s * (n \div g), s * (d \div g)>>

Int2F(i) == <<i, 1>>

Sign(x) == IF x[1] > 0 THEN 1 ELSE IF x[1] < 0 THEN -1 ELSE 0

FAdd(a, b) ==
    IF IsNaN(a) \/ IsNaN(b) THEN NaN
    ELSE IF ~IsFinite(a) /\ ~IsFinite(b) THEN (IF a = b THEN a ELSE NaN)
    ELSE IF ~IsFinite(a) THEN a
    ELSE IF ~IsFinite(b) THEN b
    ELSE Frac(a[1] * b[2] + b[1] * a[2], a[2] * b[2])

FNeg(a) == <<-a[1], a[2]>>

FSub(a, b) == FAdd(a, FNeg(b))

FMul(a, b) ==
    IF IsNaN(a) \/ IsNaN(b) THEN NaN
    ELSE IF ~IsFinite(a) \/ ~IsFinite(b)
         THEN (IF Sign(a) * Sign(b) = 0 THEN NaN ELSE <<Sign(a) * Sign(b), 0>>)
    ELSE Frac(a[1] * b[1], a[2] * b[2])

FDiv(a, b) ==
    IF IsNaN(a) \/ IsNaN(b) THEN NaN
    ELSE IF ~IsFinite(a) /\ ~IsFinite(b) THEN NaN
    ELSE IF ~IsFinite(a) THEN <<Sign(a) * (IF Sign(b) < 0 THEN -1 ELSE 1), 0>>
    ELSE IF ~IsFinite(b) THEN Int2F(0)
    ELSE IF b[1] = 0 THEN (IF a[1] = 0 THEN NaN ELSE <<Sign(a), 0>>)
    ELSE Frac(a[1] * b[2], a[2] * b[1])

(* a < b on floats; every comparison with NaN is false *)
FLess(a, b) ==
    IF IsNaN(a) \/ IsNaN(b) THEN FALSE
    ELSE IF ~IsFinite(a) THEN a = NegInf /\ b # NegInf
    ELSE IF ~IsFinite(b) THEN b = PosInf
    ELSE a[1] * b[2] < b[1] * a[2]

(* a == b on floats; NaN is not equal to itself *)
FEq(a, b) == ~IsNaN(a) /\ ~IsNaN(b) /\ a = b

SeqToSet(s) == {s[i] : i \in 1..Len(s)}

RECURSIVE FSumSeq(_)
FSumSeq(s) == IF s = <<>> THEN Int2F(0) ELSE FAdd(Head(s), FSumSeq(Tail(s)))

NotNaN(s) == SelectSeq(s, LAMBDA x : ~IsNaN(x))

(* pandas sum / mean / count / min / max of a column, skipna = True *)
PdSum(s) == FSumSeq(NotNaN(s))

PdCount(s) == Len(NotNaN(s))

PdMean(s) ==
    IF PdCount(s) = 0 THEN NaN ELSE FDiv(PdSum(s), Int2F(PdCount(s)))

PdMin(s) ==
    IF PdCount(s) = 0 THEN NaN
    ELSE CHOOSE x \in SeqToSet(NotNaN(s)) :
            \A y \in SeqToSet(NotNaN(s)) : ~FLess(y, x)

PdMax(s) ==
    IF PdCount(s) = 0 THEN NaN
    ELSE CHOOSE x \in SeqToSet(NotNaN(s)) :
            \A y \in SeqToSet(NotNaN(s)) : ~FLess(x, y)

---------------------------------------------------------------------------
(* Cell texts and Python's str.replace, str.strip and float() *)

Digits == {"0", "1", "2", "3", "4", "5", "6", "7", "8", "9"}

DigitVal ==
    ("0" :> 0) @@ ("1" :> 1) @@ ("2" :> 2) @@ ("3" :> 3) @@ ("4" :> 4) @@
    ("5" :> 5) @@ ("6" :> 6) @@ ("7" :> 7) @@ ("8" :> 8) @@ ("9" :> 9)

(* a missing cell (NaN read from the sheet), for which pd.isna is true *)
NA == <<"<NA>">>

NBSP == <<"&", "n", "b", "s", "p", ";">>

IsPrefix(p, s) == Len(p) <= Len(s) /\ SubSeq(s, 1, Len(p)) = p

RECURSIVE Drop(_, _)
Drop(s, k) == IF k = 0 \/ s = <<>> THEN s ELSE Drop(Tail(s), k - 1)

(* s.replace(pat, '') *)
RECURSIVE Remove(_, _)
Remove(s, pat) ==
    IF s = <<>> THEN <<>>
    ELSE IF IsPrefix(pat, s) THEN Remove(Drop(s, Len(pat)), pat)
    ELSE <<Head(s)>> \o Remove(Tail(s), pat)

RECURSIVE LStrip(_)
LStrip(s) == IF s # <<>> /\ Head(s) = " " THEN LStrip(Tail(s)) ELSE s

RECURSIVE RStrip(_)
RStrip(s) ==
    IF s # <<>> /\ s[Len(s)] = " " THEN RStrip(SubSeq(s, 1, Len(s) - 1)) ELSE s

Strip(s) == RStrip(LStrip(s))

AllDigits(s) == \A i \in 1..Len(s) : s[i] \in Digits

RECURSIVE ToNat(_)
ToNat(s) ==
    IF s = <<>> THEN 0 ELSE 10 * ToNat(SubSeq(s, 1, Len(s) - 1)) + DigitVal[s[Len(s)]]

(* str(n) of a natural number *)
RECURSIVE NatStr(_)
NatStr(n) ==
    LET d == CHOOSE c \in Digits : DigitVal[c] = n % 10
    IN  IF n < 10 THEN <<d>> ELSE NatStr(n \div 10) \o <<d>>

RECURSIVE Pow10(_)
Pow10(k) == IF k = 0 THEN 1 ELSE 10 * Pow10(k - 1)

DotAt(s) == {i \in 1..Len(s) : s[i] = "."}

Lower(c) ==
    IF c = "I" THEN "i" ELSE IF c = "N" THEN "n" ELSE IF c = "F" THEN "f"
    ELSE IF c = "A" THEN "a" ELSE c

LowerSeq(s) == [i \in 1..Len(s) |-> Lower(s[i])]

(* the unsigned part of a float literal: digits, digits.digits, .digits,   *)
(* digits. , inf, infinity, nan (exponents and underscores do not occur in *)
(* the texts of the model)                                                 *)
UnsignedOk(s) ==
    \/ LowerSeq(s) \in {<<"i", "n", "f">>, <<"n", "a", "n">>,
                        <<"i", "n", "f", "i", "n", "i", "t", "y">>}
    \/ /\ s # <<>>
       /\ AllDigits(s)
    \/ /\ Cardinality(DotAt(s)) = 1
       /\ Len(s) >= 2
       /\ AllDigits(Remove(s, <<".">>))

UnsignedVal(s) ==
    IF LowerSeq(s) = <<"n", "a", "n">> THEN NaN
    ELSE IF Head(LowerSeq(s)) = "i" THEN PosInf
    ELSE IF AllDigits(s) THEN Int2F(ToNat(s))
    ELSE LET i == CHOOSE j \in DotAt(s) : TRUE
         IN  Frac(ToNat(Remove(s, <<".">>)), Pow10(Len(s) - i))

HasSign(s) == s # <<>> /\ Head(s) \in {"+", "-"}

Unsigned(s) == IF HasSign(s) THEN Tail(s) ELSE s

(* float(s) succeeds *)
FloatOk(s) == UnsignedOk(Unsigned(Strip(s)))

(* float(s), when it succeeds *)
FloatVal(s) ==
    LET t == Strip(s)
        v == UnsignedVal(Unsigned(t))
    IN  IF HasSign(t) /\ Head(t) = "-" THEN FNeg(v) ELSE v

StripDecorations(s) ==
    Strip(Remove(Remove(Remove(s, <<"R", "s", ".">>), <<"/", "-">>), <<",">>))

---------------------------------------------------------------------------
(* Strings of the tables.  The product names of the sheet are Devanagari;  *)
(* they are written here in Latin letters: "bhendi" is the name mapped to  *)
(* 'Okra', "tomato" the one mapped to 'Tomato', "kanda" the one mapped to  *)
(* 'Onion' and "amba" (mango) is in no vegetable vocabulary.  Python       *)
(* orders strings by code point, which puts the Devanagari names in the    *)
(* order amba < kanda < tomato < bhendi.                                   *)

CodePointOrder ==
    <<"Okra", "Onion", "Tomato", "amba", "kanda", "tomato", "bhendi">>

StrPos ==
    [s \in {CodePointOrder[i] : i \in 1..Len(CodePointOrder)} |->
        CHOOSE i \in 1..Len(CodePointOrder) : CodePointOrder[i] = s]

StrLess(a, b) == StrPos[a] < StrPos[b]

VEGETABLES ==
    ("kanda" :> "Onion") @@ ("bhendi" :> "Okra") @@ ("tomato" :> "Tomato")

PRODUCTION_DATA ==
    ("Onion" :> 100) @@ ("Okra" :> 50) @@ ("Tomato" :> 150)

YIELD_PER_ACRE ==
    ("bhendi" :> 40) @@ ("tomato" :> 100) @@ ("amba" :> 40) @@ ("kanda" :> 80)

DEFAULT_YIELD == 50

TOP5 == 5

TOP10 == 10

---------------------------------------------------------------------------
(* The rows a sheet can hold *)

Txt1200 == <<"R", "s", ".", " ", "1", "2", "0", "0", "/", "-">>

Txt1300 == <<"R", "s", ".", " ", "1", "3", "0", "0", "/", "-">>

Txt1000 == <<"R", "s", ".", " ", "1", "0", "0", "0", "/", "-">>

Dates == {<<2024, 6, 5>>, <<2024, 6, 6>>, <<2025, 6, 5>>}

Products == {<<2001, "bhendi">>, <<2003, "tomato">>}

QtyTexts == {<<"5", "0">>, <<"7", "0">>}

MaxRateTexts == {Txt1200, Txt1300}

MinRateTexts == {Txt1000}

Rows ==
    {[rate_date |-> d, code_number |-> p[1], product_name |-> p[2],
      product_quantity |-> q, product_max_rate |-> mx, product_min_rate |-> mn] :
        d \in Dates, p \in Products, q \in QtyTexts,
        mx \in MaxRateTexts, mn \in MinRateTexts}

(* rows with cells that are no rate and no quantity: placeholders and      *)
(* literals float() reads as infinities, and a product (mango, code 3001)  *)
(* that is no vegetable by its code nor by its name                        *)
TxtInf == <<"R", "s", ".", " ", "i", "n", "f", "/", "-">>

TxtNegInf == <<"R", "s", ".", " ", "-", "i", "n", "f", "/", "-">>

OddProducts == {<<2001, "bhendi">>, <<3001, "amba">>}

OddQtyTexts == {<<"5", "0">>, NBSP, <<"i", "n", "f">>}

OddMaxRateTexts == {Txt1200, NBSP, TxtInf}

OddMinRateTexts == {Txt1000, TxtNegInf}

OddRows ==
    {[rate_date |-> <<2024, 6, 5>>, code_number |-> p[1], product_name |-> p[2],
      product_quantity |-> q, product_max_rate |-> mx, product_min_rate |-> mn] :
        p \in OddProducts, q \in OddQtyTexts,
        mx \in OddMaxRateTexts, mn \in OddMinRateTexts}

CellTexts ==
    QtyTexts \cup MaxRateTexts \cup MinRateTexts \cup {NA, NBSP}
       \cup OddQtyTexts \cup OddMaxRateTexts \cup OddMinRateTexts

---------------------------------------------------------------------------
(* Generic frame operations *)

Take(s, n) == SubSeq(s, 1, IF n < Len(s) THEN n ELSE Len(s))

Col(df, column) == [i \in 1..Len(df) |-> df[i][column]]

(* the elements of a finite set as a sequence ascending in the strict     *)
(* total order given as the set of its pairs <<smaller, larger>>          *)
SortedSeq(S, less) ==
    LET pos(x) == 1 + Cardinality({y \in S : <<y, x>> \in less})
    IN  [p \in 1..Cardinality(S) |-> CHOOSE x \in S : pos(x) = p]

(* the rows of s in descending order of their column, rows of equal value  *)
(* in their order in s (a stable sort); no value is NaN                    *)
StableDesc(s, column) ==
    LET n == Len(s)
        before(i, j) ==
            \/ FLess(s[j][column], s[i][column])
            \/ (~FLess(s[i][column], s[j][column]) /\ i < j)
        pos(i) == 1 + Cardinality({j \in 1..n : j # i /\ before(j, i)})
    IN  [p \in 1..n |-> s[CHOOSE i \in 1..n : pos(i) = p]]

(* DataFrame.nlargest(n, column), keep = 'first' *)
NLargest(df, n, column) ==
    IF n <= 0 THEN <<>>
    ELSE Take(StableDesc(SelectSeq(df, LAMBDA r : ~IsNaN(r[column])), column)
              \o SelectSeq(df, LAMBDA r : IsNaN(r[column])), n)

(* rate_date.dt.to_period('M') and rate_date.dt.month *)
ToPeriodM(d) == <<d[1], d[2]>>

DtMonth(d) == d[2]

PeriodLess(a, b) == a[1] < b[1] \/ (a[1] = b[1] /\ a[2] < b[2])

(* pd.to_numeric(column, errors = 'coerce') on one cell *)
ToNumeric(cell) ==
    IF cell = NA THEN NaN
    ELSE IF FloatOk(cell) THEN FloatVal(cell)
    ELSE NaN

---------------------------------------------------------------------------
(* vegetable_analysis.py *)

RankingCriteria == {"price", "quantity", "per_acre_production"}

get_vegetable_names == DOMAIN VEGETABLES

(* a lookup that answers the empty name outside the vocabulary *)
get_english_name_or_empty(marathi_name) ==
    IF marathi_name \in DOMAIN VEGETABLES THEN VEGETABLES[marathi_name]
    ELSE ""

get_english_name(marathi_name) ==
    IF marathi_name \in DOMAIN VEGETABLES THEN VEGETABLES[marathi_name]
    ELSE marathi_name

(* a lookup that answers 0 for a name the table lacks *)
get_production_or_zero(english_name) ==
    IF english_name \in DOMAIN PRODUCTION_DATA
    THEN Int2F(PRODUCTION_DATA[english_name])
    ELSE Int2F(0)

(* None is NaN once the looked-up values are a float column *)
get_production(english_name) ==
    IF english_name \in DOMAIN PRODUCTION_DATA
    THEN Int2F(PRODUCTION_DATA[english_name])
    ELSE NaN

parse_price(val) ==
    IF val = NA \/ val = NBSP THEN NaN
    ELSE IF FloatOk(StripDecorations(val)) THEN FloatVal(StripDecorations(val))
    ELSE NaN

ParsePriceOf == [t \in CellTexts |-> parse_price(t)]

ToNumericOf == [t \in CellTexts |-> ToNumeric(t)]

clean(df) ==
    LET parsed ==
            [i \in 1..Len(df) |->
                LET mx == ParsePriceOf[df[i].product_max_rate]
                    mn == ParsePriceOf[df[i].product_min_rate]
                IN  [rate_date |-> df[i].rate_date,
                     code_number |-> df[i].code_number,
                     product_name |-> df[i].product_name,
                     product_max_rate |-> mx,
                     product_min_rate |-> mn,
                     product_quantity |-> ToNumericOf[df[i].product_quantity],
                     avg_price |-> FDiv(FAdd(mx, mn), Int2F(2)),
                     month |-> ToPeriodM(df[i].rate_date)]]
        kept ==
            SelectSeq(parsed,
                LAMBDA r : ~IsNaN(r.avg_price) /\ ~IsNaN(r.product_quantity))
    IN  SelectSeq(kept, LAMBDA r : r.product_name \in get_vegetable_names)

MonthNameLess(a, b) ==
    PeriodLess(a[1], b[1]) \/ (a[1] = b[1] /\ StrLess(a[2], b[2]))

(* aggregate_by_month averaging the max rate instead of avg_price *)
aggregate_by_month_max_rate(df) ==
    LET ks == {<<df[i].month, df[i].product_name>> : i \in 1..Len(df)}
        keys == SortedSeq(ks, {p \in ks \X ks : MonthNameLess(p[1], p[2])})
    IN  [k \in 1..Len(keys) |->
            LET g == SelectSeq(df,
                        LAMBDA r : r.month = keys[k][1] /\ r.product_name = keys[k][2])
                en == get_english_name(keys[k][2])
            IN  [month |-> keys[k][1],
                 product_name |-> keys[k][2],
                 avg_price |-> PdMean(Col(g, "product_max_rate")),
                 total_quantity |-> PdSum(Col(g, "product_quantity")),
                 english_name |-> en,
                 per_acre_production |-> get_production(en)]]

aggregate_by_month(df) ==
    LET ks == {<<df[i].month, df[i].product_name>> : i \in 1..Len(df)}
        keys == SortedSeq(ks, {p \in ks \X ks : MonthNameLess(p[1], p[2])})
    IN  [k \in 1..Len(keys) |->
            LET g == SelectSeq(df,
                        LAMBDA r : r.month = keys[k][1] /\ r.product_name = keys[k][2])
                en == get_english_name(keys[k][2])
            IN  [month |-> keys[k][1],
                 product_name |-> keys[k][2],
                 avg_price |-> PdMean(Col(g, "avg_price")),
                 total_quantity |-> PdSum(Col(g, "product_quantity")),
                 english_name |-> en,
                 per_acre_production |-> get_production(en)]]

(* a ranking that sorts the frame and keeps every row *)
rank_without_cut(criteria, df, n) ==
    IF criteria = "price" THEN NLargest(df, Len(df), "avg_price")
    ELSE IF criteria = "quantity" THEN NLargest(df, Len(df), "total_quantity")
    ELSE NLargest(df, Len(df), "per_acre_production")

(* RankingStrategyFactory.create: the dictionary of strategies *)
strategies ==
    ("price" :> "PriceRankingStrategy")
       @@ ("quantity" :> "QuantityRankingStrategy")
       @@ ("per_acre_production" :> "PerAcreProductionRankingStrategy")

(* the column each strategy class hands to nlargest *)
StrategyColumn ==
    ("PriceRankingStrategy" :> "avg_price")
       @@ ("QuantityRankingStrategy" :> "total_quantity")
       @@ ("PerAcreProductionRankingStrategy" :> "per_acre_production")

(* strategies[criteria] raises KeyError for a key the dictionary lacks *)
create_raises(criteria) == criteria \notin DOMAIN strategies

(* a factory that returns the price strategy whatever is asked *)
create_price_only(criteria) == "PriceRankingStrategy"

create(criteria) == strategies[criteria]

(* RankingStrategyFactory.create(criteria).rank(df, n) *)
rank(criteria, df, n) == NLargest(df, n, StrategyColumn[create(criteria)])

Months(df) == {df[i].month : i \in 1..Len(df)}

InMonth(df, m) == SelectSeq(df, LAMBDA r : r.month = m)

(* the loop of get_top5_by_criteria, for n rows a month *)
RankByMonth(criteria, aggregated, n) ==
    [m \in Months(aggregated) |-> rank(criteria, InMonth(aggregated, m), n)]

get_top5_by_criteria(df, criteria) ==
    RankByMonth(criteria, aggregate_by_month(df), TOP5)

(* str(month) of a monthly period: '2024-06' *)
PeriodStr(ym) ==
    NatStr(ym[1]) \o <<"-">> \o (IF ym[2] < 10 THEN <<"0">> ELSE <<>>) \o NatStr(ym[2])

(* round(x, 2): the nearest multiple of 1/100, a tie going to the even one *)
Round2(x) ==
    IF ~IsFinite(x) THEN x
    ELSE LET n == 100 * x[1]
             d == x[2]
             lo == n \div d
             twice == 2 * (n - lo * d)
         IN  IF twice < d THEN Frac(lo, 100)
             ELSE IF twice > d THEN Frac(lo + 1, 100)
             ELSE IF lo % 2 = 0 THEN Frac(lo, 100)
             ELSE Frac(lo + 1, 100)

(* the members of RankingCriteria in the order of the Enum *)
CriteriaOrder == <<"price", "quantity", "per_acre_production">>

RECURSIVE Concat(_)
Concat(ss) == IF ss = <<>> THEN <<>> ELSE Head(ss) \o Concat(Tail(ss))

(* the rows a top-5 frame adds to the report, enumerate(..., 1) *)
ReportRows(month, criteria, top5_df) ==
    [i \in 1..Len(top5_df) |->
        [Month |-> PeriodStr(month),
         Criteria |-> criteria,
         Rank |-> i,
         Vegetable_Marathi |-> top5_df[i].product_name,
         Vegetable_English |-> top5_df[i].english_name,
         Avg_Price |-> Round2(top5_df[i].avg_price),
         Total_Quantity |-> Round2(top5_df[i].total_quantity),
         Per_Acre_Production |-> top5_df[i].per_acre_production]]

(* the rows with Rank = i counted from 0 *)
generate_full_report_from_zero(df) ==
    Concat([c \in 1..Len(CriteriaOrder) |->
        LET results == get_top5_by_criteria(df, CriteriaOrder[c])
            ks == DOMAIN results
            months == SortedSeq(ks, {p \in ks \X ks : PeriodLess(p[1], p[2])})
        IN  Concat([k \in 1..Len(months) |->
                [i \in 1..Len(results[months[k]]) |->
                    [ReportRows(months[k], CriteriaOrder[c], results[months[k]])[i]
                        EXCEPT !.Rank = i - 1]]])])

generate_full_report(df) ==
    Concat([c \in 1..Len(CriteriaOrder) |->
        LET results == get_top5_by_criteria(df, CriteriaOrder[c])
            ks == DOMAIN results
            months == SortedSeq(ks, {p \in ks \X ks : PeriodLess(p[1], p[2])})
        IN  Concat([k \in 1..Len(months) |->
                ReportRows(months[k], CriteriaOrder[c], results[months[k]])])])

---------------------------------------------------------------------------
(* profitable_vegetables.py *)

VEGETABLE_CODES == (1001..1004) \cup (2001..2043)

(* str(value): a missing cell prints as 'nan' *)
PyStr(cell) == IF cell = NA THEN <<"n", "a", "n">> ELSE cell

parse_rs(value) ==
    IF FloatOk(StripDecorations(PyStr(value)))
    THEN FloatVal(StripDecorations(PyStr(value)))
    ELSE NaN

ParseRsOf == [t \in CellTexts |-> parse_rs(t)]

(* sections 1 and 2 with a dropna on the two rates only *)
pv_clean_dropna_rates(df) ==
    LET veg == SelectSeq(df, LAMBDA r : r.code_number \in VEGETABLE_CODES)
        noph == SelectSeq(veg, LAMBDA r : Strip(PyStr(r.product_quantity)) # NBSP)
        parsed ==
            [i \in 1..Len(noph) |->
                LET mx == ParseRsOf[noph[i].product_max_rate]
                    mn == ParseRsOf[noph[i].product_min_rate]
                IN  [rate_date |-> noph[i].rate_date,
                     code_number |-> noph[i].code_number,
                     product_name |-> noph[i].product_name,
                     qty |-> ToNumericOf[noph[i].product_quantity],
                     max_rate |-> mx,
                     min_rate |-> mn,
                     avg_rate |-> FDiv(FAdd(mx, mn), Int2F(2)),
                     year_month |-> ToPeriodM(noph[i].rate_date)]]
    IN  SelectSeq(parsed, LAMBDA r : ~IsNaN(r.max_rate) /\ ~IsNaN(r.min_rate))

(* sections 1 and 2 of the script: the code filter, the placeholder filter *)
(* on the quantity, the parses and the dropna                              *)
pv_clean(df) ==
    LET veg == SelectSeq(df, LAMBDA r : r.code_number \in VEGETABLE_CODES)
        noph == SelectSeq(veg, LAMBDA r : Strip(PyStr(r.product_quantity)) # NBSP)
        parsed ==
            [i \in 1..Len(noph) |->
                LET mx == ParseRsOf[noph[i].product_max_rate]
                    mn == ParseRsOf[noph[i].product_min_rate]
                IN  [rate_date |-> noph[i].rate_date,
                     code_number |-> noph[i].code_number,
                     product_name |-> noph[i].product_name,
                     qty |-> ToNumericOf[noph[i].product_quantity],
                     max_rate |-> mx,
                     min_rate |-> mn,
                     avg_rate |-> FDiv(FAdd(mx, mn), Int2F(2)),
                     year_month |-> ToPeriodM(noph[i].rate_date)]]
    IN  SelectSeq(parsed,
            LAMBDA r : ~IsNaN(r.qty) /\ ~IsNaN(r.max_rate) /\ ~IsNaN(r.min_rate))

MonthCodeNameLess(a, b) ==
    \/ PeriodLess(a[1], b[1])
    \/ (a[1] = b[1] /\ a[2] < b[2])
    \/ (a[1] = b[1] /\ a[2] = b[2] /\ StrLess(a[3], b[3]))

(* section 3: the groupby, and per_acre = total_volume / n_days *)
pv_monthly(df) ==
    LET ks == {<<df[i].year_month, df[i].code_number, df[i].product_name>> :
                  i \in 1..Len(df)}
        keys == SortedSeq(ks, {p \in ks \X ks : MonthCodeNameLess(p[1], p[2])})
    IN  [k \in 1..Len(keys) |->
            LET g == SelectSeq(df,
                        LAMBDA r : /\ r.year_month = keys[k][1]
                                   /\ r.code_number = keys[k][2]
                                   /\ r.product_name = keys[k][3])
                vol == PdSum(Col(g, "qty"))
                nd == PdCount(Col(g, "qty"))
            IN  [year_month |-> keys[k][1],
                 code_number |-> keys[k][2],
                 product_name |-> keys[k][3],
                 avg_price |-> PdMean(Col(g, "avg_rate")),
                 total_volume |-> vol,
                 n_days |-> nd,
                 per_acre |-> FDiv(vol, Int2F(nd))]]

(* _minmax dividing by hi instead of hi - lo *)
minmax_over_hi(series) ==
    LET lo == PdMin(series)
        hi == PdMax(series)
    IN  IF ~FEq(hi, lo)
        THEN [i \in 1..Len(series) |-> FDiv(FSub(series[i], lo), hi)]
        ELSE [i \in 1..Len(series) |-> Int2F(0)]

minmax(series) ==
    LET lo == PdMin(series)
        hi == PdMax(series)
    IN  IF ~FEq(hi, lo)
        THEN [i \in 1..Len(series) |-> FDiv(FSub(series[i], lo), FSub(hi, lo))]
        ELSE [i \in 1..Len(series) |-> Int2F(0)]

YearMonths(df) == {df[i].year_month : i \in 1..Len(df)}

InYearMonth(df, ym) == SelectSeq(df, LAMBDA r : r.year_month = ym)

(* the body of the loop over monthly.groupby("year_month") *)
pv_score_month(s) ==
    LET np == minmax(Col(s, "avg_price"))
        nv == minmax(Col(s, "total_volume"))
        na == minmax(Col(s, "per_acre"))
    IN  [i \in 1..Len(s) |->
            [year_month |-> s[i].year_month,
             code_number |-> s[i].code_number,
             product_name |-> s[i].product_name,
             avg_price |-> s[i].avg_price,
             total_volume |-> s[i].total_volume,
             n_days |-> s[i].n_days,
             per_acre |-> s[i].per_acre,
             norm_price |-> np[i],
             norm_volume |-> nv[i],
             norm_per_acre |-> na[i],
             profit_score |-> FDiv(FAdd(FAdd(np[i], nv[i]), na[i]), Int2F(3))]]

(* the scores normalised over the whole frame instead of month by month *)
pv_scored_global(mon) == pv_score_month(mon)

(* section 4: scored = concat of the scored month frames *)
pv_scored(mon) ==
    LET ks == YearMonths(mon)
        yms == SortedSeq(ks, {p \in ks \X ks : PeriodLess(p[1], p[2])})
    IN  Concat([k \in 1..Len(yms) |-> pv_score_month(InYearMonth(mon, yms[k]))])

(* the top-10 rows with rank = range(0, len(subset)) *)
pv_top10_from_zero(sc) ==
    [ym \in YearMonths(sc) |->
        LET subset == NLargest(InYearMonth(sc, ym), TOP10, "profit_score")
        IN  [i \in 1..Len(subset) |-> [row |-> subset[i], rank |-> i - 1]]]

(* section 5: the top-10 rows of every month, with their rank *)
pv_top10(sc) ==
    [ym \in YearMonths(sc) |->
        LET subset == NLargest(InYearMonth(sc, ym), TOP10, "profit_score")
        IN  [i \in 1..Len(subset) |-> [row |-> subset[i], rank |-> i]]]

---------------------------------------------------------------------------
(* find_top_vegetables.py *)

(* extract_rate of find_top_vegetables.py and of top_vegetables_june.py *)
extract_rate(rate_str) ==
    IF rate_str = NA THEN NaN
    ELSE IF FloatOk(StripDecorations(rate_str))
         THEN FloatVal(StripDecorations(rate_str))
    ELSE NaN

ExtractRateOf == [t \in CellTexts |-> extract_rate(t)]

(* str(code_number).startswith('2') *)
RECURSIVE StartsWith2(_)
StartsWith2(c) == IF c < 10 THEN c = 2 ELSE StartsWith2(c \div 10)

load_and_prepare_data(df) ==
    LET veg == SelectSeq(df, LAMBDA r : StartsWith2(r.code_number))
    IN  [i \in 1..Len(veg) |->
            LET mx == ExtractRateOf[veg[i].product_max_rate]
                mn == ExtractRateOf[veg[i].product_min_rate]
            IN  [rate_date |-> veg[i].rate_date,
                 code_number |-> veg[i].code_number,
                 product_name |-> veg[i].product_name,
                 product_quantity |-> veg[i].product_quantity,
                 max_rate |-> mx,
                 min_rate |-> mn,
                 avg_rate |-> FDiv(FAdd(mx, mn), Int2F(2)),
                 month |-> DtMonth(veg[i].rate_date)]]

IntNameLess(a, b) == a[1] < b[1] \/ (a[1] = b[1] /\ StrLess(a[2], b[2]))

yield_of(product_name) ==
    IF product_name \in DOMAIN YIELD_PER_ACRE THEN YIELD_PER_ACRE[product_name]
    ELSE DEFAULT_YIELD

calculate_profitability(veg_df) ==
    LET ks == {<<veg_df[i].month, veg_df[i].product_name>> :
                  i \in 1..Len(veg_df)}
        keys == SortedSeq(ks, {p \in ks \X ks : IntNameLess(p[1], p[2])})
    IN  [k \in 1..Len(keys) |->
            LET g == SelectSeq(veg_df,
                        LAMBDA r : r.month = keys[k][1] /\ r.product_name = keys[k][2])
                avg == PdMean(Col(g, "avg_rate"))
                y == yield_of(keys[k][2])
            IN  [month |-> keys[k][1],
                 product_name |-> keys[k][2],
                 avg_rate |-> avg,
                 max_rate |-> PdMean(Col(g, "max_rate")),
                 min_rate |-> PdMean(Col(g, "min_rate")),
                 yield_per_acre |-> y,
                 revenue_per_acre |-> FMul(avg, Int2F(y))]]

get_top_vegetables_by_month(profitability_df, top_n) ==
    [m \in Months(profitability_df) |->
        LET top_veg == NLargest(InMonth(profitability_df, m), top_n,
                                "revenue_per_acre")
        IN  [i \in 1..Len(top_veg) |-> [row |-> top_veg[i], rank |-> i]]]

---------------------------------------------------------------------------
(* top_vegetables_june.py *)

normalize(series) ==
    LET min_val == PdMin(series)
        max_val == PdMax(series)
    IN  IF FEq(max_val, min_val)
        THEN [i \in 1..Len(series) |-> Frac(1, 2)]
        ELSE [i \in 1..Len(series) |->
                FDiv(FSub(series[i], min_val), FSub(max_val, min_val))]

(* main, lines 35-45: the June vegetable rows with their parsed columns *)
june_veggies(df) ==
    LET jv == SelectSeq(df,
                LAMBDA r : /\ DtMonth(r.rate_date) = 6
                           /\ r.code_number >= 2001
                           /\ r.code_number <= 2999)
    IN  [i \in 1..Len(jv) |->
            LET mx == ExtractRateOf[jv[i].product_max_rate]
                mn == ExtractRateOf[jv[i].product_min_rate]
            IN  [rate_date |-> jv[i].rate_date,
                 code_number |-> jv[i].code_number,
                 product_name |-> jv[i].product_name,
                 max_rate |-> mx,
                 min_rate |-> mn,
                 avg_rate |-> FDiv(FAdd(mx, mn), Int2F(2)),
                 volume |-> ToNumericOf[jv[i].product_quantity]]]

(* main, lines 48-56: agg_df with its normalised columns and the score *)
june_agg(jv) ==
    LET ks == {jv[i].product_name : i \in 1..Len(jv)}
        names == SortedSeq(ks, {p \in ks \X ks : StrLess(p[1], p[2])})
        vol == [k \in 1..Len(names) |->
                  PdSum(Col(SelectSeq(jv, LAMBDA r : r.product_name = names[k]),
                            "volume"))]
        avg == [k \in 1..Len(names) |->
                  PdMean(Col(SelectSeq(jv, LAMBDA r : r.product_name = names[k]),
                             "avg_rate"))]
        rn == normalize(avg)
        vn == normalize(vol)
    IN  [k \in 1..Len(names) |->
            [product_name |-> names[k],
             volume |-> vol[k],
             avg_rate |-> avg[k],
             rate_norm |-> rn[k],
             volume_norm |-> vn[k],
             combined_score |-> FAdd(FMul(Frac(1, 2), rn[k]), FMul(Frac(1, 2), vn[k]))]]

(* main, line 59 *)
june_top_5(agg_df) == NLargest(agg_df, TOP5, "combined_score")

(* main, line 80: summary.index = range(1, 6) raises ValueError unless the *)
(* summary has exactly five rows                                           *)
june_summary_raises(top_5) == Len(top_5) # Cardinality(1..5)

---------------------------------------------------------------------------
(* The state machine: a sheet is read row by row, then one of the scripts  *)
(* runs on it.                                                             *)

NoArg == [criteria |-> "none", n |-> 0]

(* the n a ranking is asked for: fewer than, as many as and more than the  *)
(* commodities a month can hold here; get_top_vegetables_by_month is also  *)
(* asked for its top 0                                                     *)
SmallNs == {1, 2}

TopNs == SmallNs \cup {TOP5, 0}

Init ==
    /\ table = <<>>
    /\ pc = "load"
    /\ cleaned = <<>>
    /\ monthly = <<>>
    /\ scored = <<>>
    /\ result = <<>>
    /\ arg = NoArg
    /\ raised = FALSE
    /\ report = <<>>

(* pd.read_excel: one more row of the sheet *)
LoadRow ==
    /\ pc = "load"
    /\ Len(table) < MaxRows
    /\ \E r \in Rows : table' = Append(table, r)
    /\ UNCHANGED <<pc, cleaned, monthly, scored, result, arg, raised, report>>

(* VegetableAnalysisService.analyze: clean, then generate_full_report,     *)
(* which calls get_top5_by_criteria for every criteria                     *)
VA_Analyze ==
    /\ pc = "load"
    /\ cleaned' = clean(table)
    /\ monthly' = aggregate_by_month(cleaned')
    /\ result' = [c \in RankingCriteria |-> get_top5_by_criteria(cleaned', c)]
    /\ report' = generate_full_report(cleaned')
    /\ pc' = "va_analyzed"
    /\ UNCHANGED <<table, scored, arg, raised>>

(* IRankingStrategy.rank(df, n) on the month frames of the aggregate *)
VA_StrategyRank ==
    /\ pc = "va_analyzed"
    /\ \E c \in RankingCriteria, n \in SmallNs :
          /\ result' = RankByMonth(c, monthly, n)
          /\ arg' = [criteria |-> c, n |-> n]
    /\ pc' = "va_ranked"
    /\ UNCHANGED <<table, cleaned, monthly, scored, raised, report>>

(* profitable_vegetables.py, sections 1 to 5 *)
PV_Run ==
    /\ pc = "load"
    /\ cleaned' = pv_clean(table)
    /\ monthly' = pv_monthly(cleaned')
    /\ scored' = pv_scored(monthly')
    /\ result' = pv_top10(scored')
    /\ pc' = "pv_done"
    /\ UNCHANGED <<table, arg, raised, report>>

(* find_top_vegetables.main: load_and_prepare_data, calculate_profitability *)
FT_Profitability ==
    /\ pc = "load"
    /\ cleaned' = load_and_prepare_data(table)
    /\ monthly' = calculate_profitability(cleaned')
    /\ pc' = "ft_prof"
    /\ UNCHANGED <<table, scored, result, arg, raised, report>>

(* get_top_vegetables_by_month(profitability_df, top_n) *)
FT_GetTop ==
    /\ pc = "ft_prof"
    /\ \E n \in TopNs :
          /\ result' = get_top_vegetables_by_month(monthly, n)
          /\ arg' = [criteria |-> "revenue_per_acre", n |-> n]
    /\ pc' = "ft_top"
    /\ UNCHANGED <<table, cleaned, monthly, scored, raised, report>>

(* top_vegetables_june.main *)
June_Main ==
    /\ pc = "load"
    /\ cleaned' = june_veggies(table)
    /\ monthly' = june_agg(cleaned')
    /\ result' = june_top_5(monthly')
    /\ raised' = june_summary_raises(result')
    /\ pc' = "june_done"
    /\ UNCHANGED <<table, scored, arg, report>>

Next ==
    \/ LoadRow
    \/ VA_Analyze
    \/ VA_StrategyRank
    \/ PV_Run
    \/ FT_Profitability
    \/ FT_GetTop
    \/ June_Main

Spec == Init /\ [][Next]_vars

---------------------------------------------------------------------------
(* Properties *)

(* the positions of a column that hold a value (not NaN) *)
Present(vals) == {i \in 1..Len(vals) : ~IsNaN(vals[i])}

IsMaxAt(vals, i) == \A j \in Present(vals) : ~FLess(vals[i], vals[j])

IsMinAt(vals, i) == \A j \in Present(vals) : ~FLess(vals[j], vals[i])

AllEqual(vals) == \A i, j \in Present(vals) : vals[i] = vals[j]

(* norms is a min-max normalisation of vals with degenerate constant c *)
NormalizedEnds(vals, norms, c) ==
    IF AllEqual(vals)
    THEN \A i \in Present(vals) : norms[i] = c
    ELSE \A i \in Present(vals) :
            /\ IsMaxAt(vals, i) => norms[i] = Int2F(1)
            /\ IsMinAt(vals, i) => norms[i] = Int2F(0)

(* C1: in every month bucket of profitable_vegetables and in the June      *)
(* bucket of top_vegetables_june, every normalised metric is 1 at the      *)
(* bucket's maximum and 0 at its minimum when the bucket holds two         *)
(* distinct values, and is the normaliser's degenerate constant (0 for     *)
(* _minmax, 1/2 for normalize) everywhere when all values are equal.       *)
C1_NormalizedEnds ==
    /\ pc = "pv_done" =>
          \A ym \in YearMonths(scored) :
             LET b == InYearMonth(scored, ym)
             IN  /\ NormalizedEnds(Col(b, "avg_price"),
                                   Col(b, "norm_price"), Int2F(0))
                 /\ NormalizedEnds(Col(b, "total_volume"),
                                   Col(b, "norm_volume"), Int2F(0))
                 /\ NormalizedEnds(Col(b, "per_acre"),
                                   Col(b, "norm_per_acre"), Int2F(0))
    /\ pc = "june_done" =>
          /\ NormalizedEnds(Col(monthly, "avg_rate"),
                            Col(monthly, "rate_norm"), Frac(1, 2))
          /\ NormalizedEnds(Col(monthly, "volume"),
                            Col(monthly, "volume_norm"), Frac(1, 2))

(* a scored month of two commodities whose prices differ and whose volumes *)
(* are equal: the price is normalised to 0 and 1, the volume is degenerate *)
C1_Witness ==
    /\ pc = "pv_done"
    /\ \E ym \in YearMonths(scored) :
          LET b == InYearMonth(scored, ym)
          IN  /\ Len(b) = 2
              /\ FLess(b[1].avg_price, b[2].avg_price)
              /\ b[1].norm_price = Int2F(0)
              /\ b[2].norm_price = Int2F(1)
              /\ b[1].total_volume = b[2].total_volume
              /\ b[1].norm_volume = Int2F(0)
              /\ b[2].norm_volume = Int2F(0)

(* C2: on a series whose values are all equal, every normaliser of the     *)
(* repository returns the same constant: the norms _minmax stored for a    *)
(* degenerate bucket are those normalize gives for the same series, and    *)
(* the norms normalize stored are those _minmax gives.                     *)
C2_SameDegenerateConstant ==
    /\ pc = "pv_done" =>
          \A ym \in YearMonths(scored) :
             LET b == InYearMonth(scored, ym)
                 vals == Col(b, "avg_price")
             IN  AllEqual(vals) => Col(b, "norm_price") = normalize(vals)
    /\ pc = "june_done" =>
          LET vals == Col(monthly, "avg_rate")
          IN  AllEqual(vals) => Col(monthly, "rate_norm") = minmax(vals)

(* the sum of vals[i] over the positions i of G *)
RECURSIVE SumAt(_, _)
SumAt(vals, G) ==
    IF G = {} THEN Int2F(0)
    ELSE LET i == CHOOSE j \in G : TRUE
         IN  FAdd(vals[i], SumAt(vals, G \ {i}))

(* the cleaned rows of the group a summary row of vegetable_analysis or of *)
(* profitable_vegetables stands for                                        *)
VAGroup(s) ==
    {i \in 1..Len(cleaned) :
        cleaned[i].month = s.month /\ cleaned[i].product_name = s.product_name}

PVGroup(s) ==
    {i \in 1..Len(cleaned) :
        /\ cleaned[i].year_month = s.year_month
        /\ cleaned[i].code_number = s.code_number
        /\ cleaned[i].product_name = s.product_name}

(* C3: every (month, commodity) group of cleaned observations has exactly  *)
(* one summary row, whose mean price is the arithmetic mean of             *)
(* (max_rate + min_rate) / 2 over the group's observations and whose total *)
(* volume is the sum of their quantities.                                  *)
C3_GroupMeanAndSum ==
    /\ pc = "va_analyzed" =>
          /\ \A i \in 1..Len(cleaned) :
                Cardinality({k \in 1..Len(monthly) : i \in VAGroup(monthly[k])}) = 1
          /\ \A k \in 1..Len(monthly) :
                LET G == VAGroup(monthly[k])
                IN  /\ G # {}
                    /\ FMul(Int2F(2 * Cardinality(G)), monthly[k].avg_price)
                         = SumAt([i \in 1..Len(cleaned) |->
                                    FAdd(cleaned[i].product_max_rate,
                                         cleaned[i].product_min_rate)], G)
                    /\ monthly[k].total_quantity
                         = SumAt([i \in 1..Len(cleaned) |->
                                    cleaned[i].product_quantity], G)
    /\ pc = "pv_done" =>
          /\ \A i \in 1..Len(cleaned) :
                Cardinality({k \in 1..Len(monthly) : i \in PVGroup(monthly[k])}) = 1
          /\ \A k \in 1..Len(monthly) :
                LET G == PVGroup(monthly[k])
                IN  /\ G # {}
                    /\ FMul(Int2F(2 * Cardinality(G)), monthly[k].avg_price)
                         = SumAt([i \in 1..Len(cleaned) |->
                                    FAdd(cleaned[i].max_rate, cleaned[i].min_rate)], G)
                    /\ monthly[k].total_volume
                         = SumAt([i \in 1..Len(cleaned) |-> cleaned[i].qty], G)

(* two observations of one commodity in one month, quantities 50 and 70,   *)
(* rates 1200/1000 and 1300/1000: mean price 1125, total volume 120        *)
C3_Witness ==
    /\ pc = "va_analyzed"
    /\ Len(cleaned) = 2
    /\ Len(monthly) = 1
    /\ cleaned[1].avg_price # cleaned[2].avg_price
    /\ cleaned[1].product_quantity # cleaned[2].product_quantity
    /\ monthly[1].avg_price = Int2F(1125)
    /\ monthly[1].total_quantity = Int2F(120)

(* C4: the trading days (n_days) of every (month, commodity) group are the *)
(* number of distinct observation dates of the group.                      *)
C4_TradingDaysAreDistinctDates ==
    pc = "pv_done" =>
        \A k \in 1..Len(monthly) :
            monthly[k].n_days
              = Cardinality({cleaned[i].rate_date : i \in PVGroup(monthly[k])})

SameYearMonth(d, e) == d[1] = e[1] /\ d[2] = e[2]

(* C5: in vegetable_analysis, profitable_vegetables and         *)
(* find_top_vegetables two observations fall in one bucket only if they    *)
(* share both the year and the month of their dates.                       *)
C5_BucketsKeyedByYearAndMonth ==
    /\ pc \in {"va_analyzed", "va_ranked"} =>
          \A i, j \in 1..Len(cleaned) :
             cleaned[i].month = cleaned[j].month
                => SameYearMonth(cleaned[i].rate_date, cleaned[j].rate_date)
    /\ pc = "pv_done" =>
          \A i, j \in 1..Len(cleaned) :
             cleaned[i].year_month = cleaned[j].year_month
                => SameYearMonth(cleaned[i].rate_date, cleaned[j].rate_date)
    /\ pc \in {"ft_prof", "ft_top"} =>
          \A i, j \in 1..Len(cleaned) :
             cleaned[i].month = cleaned[j].month
                => SameYearMonth(cleaned[i].rate_date, cleaned[j].rate_date)

(* the rows of the sheet dated in the month ym *)
SheetOfMonth(ym) ==
    SelectSeq(table, LAMBDA r : r.rate_date[1] = ym[1] /\ r.rate_date[2] = ym[2])

(* C6: what profitable_vegetables and vegetable_analysis produce for a     *)
(* month bucket (normalised metrics, scores, ranking) is what they produce *)
(* for it from the sheet's rows of that month alone, so it is the same for *)
(* any two sheets with the same rows in that month.                        *)
C6_BucketIndependence ==
    /\ pc = "pv_done" =>
          \A ym \in YearMonths(scored) :
             LET alone == pv_scored(pv_monthly(pv_clean(SheetOfMonth(ym))))
             IN  /\ InYearMonth(scored, ym) = alone
                 /\ result[ym] = pv_top10(alone)[ym]
    /\ pc = "va_analyzed" =>
          \A c \in RankingCriteria : \A m \in DOMAIN result[c] :
             result[c][m] = get_top5_by_criteria(clean(SheetOfMonth(m)), c)[m]

(* a sheet with two months whose prices and volumes differ: each month is  *)
(* scored and ranked on its own                                            *)
C6_Witness ==
    /\ pc = "pv_done"
    /\ Len(scored) = 2
    /\ scored[1].year_month # scored[2].year_month
    /\ scored[1].avg_price # scored[2].avg_price
    /\ scored[1].total_volume # scored[2].total_volume
    /\ Len(result[scored[1].year_month]) = 1
    /\ Len(result[scored[2].year_month]) = 1

Min(a, b) == IF a < b THEN a ELSE b

(* the commodities observed in the bucket key of the cleaned rows, whose   *)
(* bucket is their column keycol                                           *)
CommoditiesOf(rows, keycol, key) ==
    {rows[i].product_name : i \in {j \in 1..Len(rows) : rows[j][keycol] = key}}

BucketsOf(rows, keycol) == {rows[i][keycol] : i \in 1..Len(rows)}

(* one ranking per bucket of the cleaned rows, each of min(n, commodities  *)
(* of the bucket) rows                                                     *)
CutAt(res, n, rows, keycol) ==
    /\ DOMAIN res = BucketsOf(rows, keycol)
    /\ \A m \in DOMAIN res :
          Len(res[m]) = Min(n, Cardinality(CommoditiesOf(rows, keycol, m)))

(* C7: every ranking of a bucket has min(top_n, commodities of the bucket) *)
(* rows: at most top_n, exactly top_n if and only if the bucket has at     *)
(* least top_n commodities, and otherwise one row per commodity.           *)
C7_ResultLength ==
    /\ pc = "va_analyzed" =>
          \A c \in RankingCriteria : CutAt(result[c], TOP5, cleaned, "month")
    /\ pc = "va_ranked" => CutAt(result, arg.n, cleaned, "month")
    /\ pc = "pv_done" => CutAt(result, TOP10, cleaned, "year_month")
    /\ pc = "ft_top" => CutAt(result, arg.n, cleaned, "month")
    /\ pc = "june_done" =>
          Len(result) = Min(TOP5, Cardinality({cleaned[i].product_name :
                                                  i \in 1..Len(cleaned)}))

(* a month of two commodities ranked for its top 1: one row is kept *)
C7_Witness ==
    /\ pc = "va_ranked"
    /\ arg.n = 1
    /\ \E m \in DOMAIN result :
          /\ Cardinality(CommoditiesOf(cleaned, "month", m)) = 2
          /\ Len(result[m]) = 1

(* C8: a bucket with fewer commodities than top_n is no error: every       *)
(* ranking path, top_vegetables_june.main with its summary table included, *)
(* completes without raising once it has a commodity to rank.             *)
C8_ShortBucketNeverRaises ==
    (/\ pc \in {"va_analyzed", "va_ranked", "pv_done", "ft_top", "june_done"}
     /\ cleaned # <<>>)
       => ~raised

(* the rows of a ranking are in tie order: of two rows with equal keys the *)
(* one of the smaller name comes first                                     *)
TiesByName(ranking, keycol, namecol) ==
    \A i, j \in 1..Len(ranking) :
       (i < j /\ FEq(ranking[i][keycol], ranking[j][keycol]))
          => StrLess(ranking[i][namecol], ranking[j][namecol])

(* a row of the bucket left out of the ranking that ties with a kept row   *)
(* has the larger name                                                     *)
CutKeepsSmallerName(ranking, bucket, keycol, namecol) ==
    \A i \in 1..Len(ranking), k \in 1..Len(bucket) :
       (/\ \A j \in 1..Len(ranking) : ranking[j][namecol] # bucket[k][namecol]
        /\ FEq(ranking[i][keycol], bucket[k][keycol]))
          => StrLess(ranking[i][namecol], bucket[k][namecol])

TieOrder(ranking, bucket, keycol, namecol) ==
    /\ TiesByName(ranking, keycol, namecol)
    /\ CutKeepsSmallerName(ranking, bucket, keycol, namecol)

ColumnOf(criteria) ==
    IF criteria = "price" THEN "avg_price"
    ELSE IF criteria = "quantity" THEN "total_quantity"
    ELSE "per_acre_production"

(* C9: in every ranking variant, commodities of one bucket with equal      *)
(* ordering keys are ranked in ascending order of their canonical names    *)
(* (the English name of vegetable_analysis, the product name elsewhere),   *)
(* and a tie at the top_n cut-off keeps the smaller name.                  *)
C9_TiesByCanonicalName ==
    /\ pc = "va_analyzed" =>
          \A c \in RankingCriteria : \A m \in DOMAIN result[c] :
             TieOrder(result[c][m], InMonth(monthly, m), ColumnOf(c), "english_name")
    /\ pc = "va_ranked" =>
          \A m \in DOMAIN result :
             TieOrder(result[m], InMonth(monthly, m), ColumnOf(arg.criteria),
                      "english_name")
    /\ pc = "pv_done" =>
          \A ym \in DOMAIN result :
             TieOrder(Col(result[ym], "row"), InYearMonth(scored, ym),
                      "profit_score", "product_name")
    /\ pc = "ft_top" =>
          \A m \in DOMAIN result :
             TieOrder(Col(result[m], "row"), InMonth(monthly, m),
                      "revenue_per_acre", "product_name")
    /\ pc = "june_done" =>
          TieOrder(result, monthly, "combined_score", "product_name")

(* C11: an invalid configuration fails closed: a call for a non-positive  *)
(* top_n ends in an error before any bucket is ranked; it is not turned    *)
(* into empty rankings.                                                    *)
C11_InvalidTopNRejected ==
    (pc = "ft_top" /\ monthly # <<>> /\ arg.n <= 0) => (raised /\ result = <<>>)

---------------------------------------------------------------------------
(* The rate parsers, called one cell at a time *)

(* the exception float(s) ends in *)
FloatError(s) == IF FloatOk(s) THEN "none" ELSE "ValueError"

PyExceptions == {"ValueError", "TypeError", "AttributeError"}

(* _parse_price: a bare except catches whatever float raises *)
parse_price_raises(val) ==
    /\ val # NA
    /\ val # NBSP
    /\ FloatError(StripDecorations(val)) \notin ({"none"} \cup PyExceptions)

(* extract_rate with a handler for TypeError only *)
extract_rate_uncaught(rate_str) ==
    /\ rate_str # NA
    /\ FloatError(StripDecorations(rate_str)) \notin {"none", "TypeError"}

(* extract_rate of find_top_vegetables.py and top_vegetables_june.py:      *)
(* except ValueError                                                       *)
extract_rate_raises(rate_str) ==
    /\ rate_str # NA
    /\ FloatError(StripDecorations(rate_str)) \notin {"none", "ValueError"}

(* _parse_rs: except ValueError *)
parse_rs_raises(value) ==
    FloatError(StripDecorations(PyStr(value))) \notin {"none", "ValueError"}

(* the first digit of s alone, as the pattern (\d) would give it *)
FirstDigit(s) ==
    LET at == {i \in 1..Len(s) : s[i] \in Digits}
    IN  IF at = {} THEN <<>>
        ELSE <<s[CHOOSE k \in at : \A l \in at : k <= l]>>

(* re.search(r'(\d+)', s).group(1): the first maximal run of digits of s,  *)
(* <<>> when s has no digit (no match)                                     *)
FirstDigits(s) ==
    LET at == {i \in 1..Len(s) : s[i] \in Digits}
    IN  IF at = {} THEN <<>>
        ELSE LET i == CHOOSE k \in at : \A l \in at : k <= l
                 j == CHOOSE k \in i..Len(s) :
                         /\ \A l \in i..k : s[l] \in Digits
                         /\ (k = Len(s) \/ s[k + 1] \notin Digits)
             IN  SubSeq(s, i, j)

(* crop_rate_analysis.clean_rate; None is written NaN *)
clean_rate(rate_str) ==
    IF rate_str = NA \/ rate_str = NBSP THEN NaN
    ELSE IF FirstDigits(rate_str) # <<>> THEN Int2F(ToNat(FirstDigits(rate_str)))
    ELSE NaN

(* float(match.group(1)) is called on digits only *)
clean_rate_raises(rate_str) ==
    /\ rate_str # NA
    /\ rate_str # NBSP
    /\ FirstDigits(rate_str) # <<>>
    /\ FloatError(FirstDigits(rate_str)) # "none"

(* march_crop_analysis.extract_rate; None is written NaN, the int n as n/1 *)
march_extract_rate(rate_string) ==
    IF rate_string = NA THEN NaN
    ELSE IF FirstDigits(rate_string) # <<>> THEN Int2F(ToNat(FirstDigits(rate_string)))
    ELSE NaN

(* int(match.group(1)) is called on digits only *)
march_extract_rate_raises(rate_string) ==
    /\ rate_string # NA
    /\ FirstDigits(rate_string) # <<>>
    /\ ~AllDigits(FirstDigits(rate_string))

(* the largest whole rate that is formatted *)
MaxRate == 11

(* Python numbers: the ints -1..MaxRate and the floats h/2 around them *)
PyNumbers ==
    {[float |-> FALSE, val |-> Int2F(i)] : i \in -1..MaxRate}
       \cup {[float |-> TRUE, val |-> Frac(h, 2)] : h \in -1..(2 * MaxRate)}

NoNumber == [float |-> FALSE, val |-> NaN]

(* str(n) of an int, repr(n) of a float with at most one decimal *)
PyStrNum(n) ==
    LET a == Abs(n.val[1])
        q == n.val[2]
    IN  (IF n.val[1] < 0 THEN <<"-">> ELSE <<>>)
           \o NatStr(a \div q)
           \o (IF n.float THEN <<".", IF q = 2 THEN "5" ELSE "0">> ELSE <<>>)

(* f"Rs. {n}/-" *)
FormatRate(n) == <<"R", "s", ".", " ">> \o PyStrNum(n) \o <<"/", "-">>

(* cells that are no formatted rate *)
OddTexts ==
    {NA, NBSP,
     <<>>,
     <<"R", "s", ".", " ", "/", "-">>,
     <<"a", "b", "c">>,
     <<"R", "s", ".", " ", "i", "n", "f", "/", "-">>,
     <<"n", "a", "n">>,
     <<"1", ",", "7", "0", "0">>,
     <<" ", "1", "2", " ">>,
     <<"R", "s", ".", "1", "2">>,
     <<"-">>,
     <<"1", ".", "2", ".", "3">>,
     <<"&", "n", "b", "s", "p", ";", " ">>,
     <<"R", "s", ".", " ", "0", "/", "-">>,
     <<"R", "s", " ", "7">>,
     <<"1", "2", " ", "k", "g", " ", "5">>}

ParserInit ==
    /\ pc = "cell"
    /\ arg = [n |-> NoNumber, text |-> NA]
    /\ result = NaN
    /\ raised = FALSE
    /\ table = <<>>
    /\ cleaned = <<>>
    /\ monthly = <<>>
    /\ scored = <<>>
    /\ report = <<>>

(* a rate is formatted into a cell *)
FormatCell ==
    /\ pc = "cell"
    /\ \E n \in PyNumbers : arg' = [n |-> n, text |-> FormatRate(n)]
    /\ pc' = "text"
    /\ UNCHANGED <<table, cleaned, monthly, scored, result, raised, report>>

(* the sheet holds some other cell *)
OddCell ==
    /\ pc = "cell"
    /\ \E t \in OddTexts : arg' = [n |-> NoNumber, text |-> t]
    /\ pc' = "text"
    /\ UNCHANGED <<table, cleaned, monthly, scored, result, raised, report>>

Call_parse_price ==
    /\ pc = "text"
    /\ result' = parse_price(arg.text)
    /\ raised' = parse_price_raises(arg.text)
    /\ pc' = "_parse_price"
    /\ UNCHANGED <<table, cleaned, monthly, scored, arg, report>>

Call_extract_rate ==
    /\ pc = "text"
    /\ result' = extract_rate(arg.text)
    /\ raised' = extract_rate_raises(arg.text)
    /\ pc' = "extract_rate"
    /\ UNCHANGED <<table, cleaned, monthly, scored, arg, report>>

Call_parse_rs ==
    /\ pc = "text"
    /\ result' = parse_rs(arg.text)
    /\ raised' = parse_rs_raises(arg.text)
    /\ pc' = "_parse_rs"
    /\ UNCHANGED <<table, cleaned, monthly, scored, arg, report>>

Call_clean_rate ==
    /\ pc = "text"
    /\ result' = clean_rate(arg.text)
    /\ raised' = clean_rate_raises(arg.text)
    /\ pc' = "clean_rate"
    /\ UNCHANGED <<table, cleaned, monthly, scored, arg, report>>

Call_march_extract_rate ==
    /\ pc = "text"
    /\ result' = march_extract_rate(arg.text)
    /\ raised' = march_extract_rate_raises(arg.text)
    /\ pc' = "march_extract_rate"
    /\ UNCHANGED <<table, cleaned, monthly, scored, arg, report>>

ParserNext ==
    \/ FormatCell
    \/ OddCell
    \/ Call_parse_price
    \/ Call_extract_rate
    \/ Call_parse_rs
    \/ Call_clean_rate
    \/ Call_march_extract_rate

ParserSpec == ParserInit /\ [][ParserNext]_vars

StrictParsers == {"_parse_price", "extract_rate", "_parse_rs"}

TolerantParsers == {"clean_rate", "march_extract_rate"}

(* C12: a rate formatted as 'Rs. {n}/-' parses back to exactly n, with     *)
(* every strict and every tolerant parser.                                 *)
C12_RoundTrip ==
    (pc \in StrictParsers \cup TolerantParsers /\ arg.n # NoNumber)
       => (~raised /\ result = arg.n.val)

(* C12 amended: a finite n formatted as 'Rs. {n}/-' parses back to        *)
(* exactly n with every strict parser; with the tolerant parsers, which    *)
(* take the first run of digits, it does when n is whole and not negative. *)
C12_RoundTripStrictOrWhole ==
    /\ (pc \in StrictParsers /\ arg.n # NoNumber)
          => (~raised /\ result = arg.n.val)
    /\ (/\ pc \in TolerantParsers
        /\ arg.n # NoNumber
        /\ arg.n.val[2] = 1
        /\ arg.n.val[1] >= 0)
          => (~raised /\ result = arg.n.val)

(* clean_rate read the two-digit rate 11 back from 'Rs. 11/-' *)
C12_Witness ==
    /\ pc = "clean_rate"
    /\ arg.n = [float |-> FALSE, val |-> Int2F(11)]
    /\ arg.text = <<"R", "s", ".", " ", "1", "1", "/", "-">>
    /\ result = Int2F(11)

(* the missing cell, the empty cell and the placeholder *)
Sentinels == {NA, <<>>, NBSP}

(* a float: a fraction, an infinity or NaN (which also stands for None) *)
IsFloat(x) ==
    /\ DOMAIN x = 1..2
    /\ x[1] \in Int
    /\ x[2] \in Nat
    /\ (x[2] = 0 => x[1] \in {-1, 0, 1})

(* C13: every rate parser is total: on every cell it returns a number or   *)
(* the unparseable marker and does not raise; on the missing cell, the     *)
(* empty cell and the '&nbsp;' placeholder it returns the marker, not 0.   *)
C13_ParsersTotal ==
    pc \in StrictParsers \cup TolerantParsers =>
       /\ ~raised
       /\ IsFloat(result)
       /\ arg.text \in Sentinels => IsNaN(result)

(* extract_rate was handed a cell float() rejects and returned NaN *)
C13_Witness ==
    /\ pc = "extract_rate"
    /\ arg.text = <<"a", "b", "c">>
    /\ ~raised
    /\ IsNaN(result)

---------------------------------------------------------------------------
(* The cleaning stages alone, on sheets with odd cells *)

MaxOddRows == 2

LoadOddRow ==
    /\ pc = "load"
    /\ Len(table) < MaxOddRows
    /\ \E r \in OddRows : table' = Append(table, r)
    /\ UNCHANGED <<pc, cleaned, monthly, scored, result, arg, raised, report>>

(* an exception of _parse_price would end clean *)
clean_raises(df) ==
    \E i \in 1..Len(df) :
       \/ parse_price_raises(df[i].product_max_rate)
       \/ parse_price_raises(df[i].product_min_rate)

(* VegetableDataCleaner.clean *)
VA_Clean ==
    /\ pc = "load"
    /\ cleaned' = clean(table)
    /\ raised' = clean_raises(table)
    /\ pc' = "va_cleaned"
    /\ UNCHANGED <<table, monthly, scored, result, arg, report>>

(* an exception of _parse_rs would end the script *)
pv_clean_raises(df) ==
    \E i \in 1..Len(df) :
       /\ df[i].code_number \in VEGETABLE_CODES
       /\ Strip(PyStr(df[i].product_quantity)) # NBSP
       /\ \/ parse_rs_raises(df[i].product_max_rate)
          \/ parse_rs_raises(df[i].product_min_rate)

(* profitable_vegetables.py, sections 1 and 2 *)
PV_Clean ==
    /\ pc = "load"
    /\ cleaned' = pv_clean(table)
    /\ raised' = pv_clean_raises(table)
    /\ pc' = "pv_cleaned"
    /\ UNCHANGED <<table, monthly, scored, result, arg, report>>

CleanNext ==
    \/ LoadOddRow
    \/ VA_Clean
    \/ PV_Clean

CleanSpec == Init /\ [][CleanNext]_vars

(* a rate text is parseable when _parse_price reads a number from it *)
Parseable(text) == IsFinite(parse_price(text))

(* the rows of the sheet clean is to keep *)
ToKeep ==
    SelectSeq(table,
        LAMBDA r : /\ Parseable(r.product_max_rate)
                   /\ Parseable(r.product_min_rate)
                   /\ IsFinite(ToNumeric(r.product_quantity))
                   /\ r.product_name \in DOMAIN VEGETABLES)

(* C14: VegetableDataCleaner.clean returns exactly the rows of the sheet,  *)
(* in their order, whose two rates are parseable, whose quantity is        *)
(* numeric and whose name is in the vocabulary, each with                  *)
(* avg_price = (max_rate + min_rate) / 2.                                  *)
C14_CleanIsTheSubsequence ==
    pc = "va_cleaned" =>
       /\ Len(cleaned) = Len(ToKeep)
       /\ \A i \in 1..Len(cleaned) :
             /\ cleaned[i].rate_date = ToKeep[i].rate_date
             /\ cleaned[i].code_number = ToKeep[i].code_number
             /\ cleaned[i].product_name = ToKeep[i].product_name
             /\ cleaned[i].product_max_rate = parse_price(ToKeep[i].product_max_rate)
             /\ cleaned[i].product_min_rate = parse_price(ToKeep[i].product_min_rate)
             /\ cleaned[i].product_quantity = ToNumeric(ToKeep[i].product_quantity)
             /\ cleaned[i].avg_price =
                   FDiv(FAdd(cleaned[i].product_max_rate,
                             cleaned[i].product_min_rate), Int2F(2))

(* C15: every record that survives cleaning has a finite quantity, max     *)
(* rate, min rate and average rate, whatever the texts of the sheet.       *)
C15_CleanedFieldsFinite ==
    /\ pc = "va_cleaned" =>
          \A i \in 1..Len(cleaned) :
             /\ IsFinite(cleaned[i].product_quantity)
             /\ IsFinite(cleaned[i].product_max_rate)
             /\ IsFinite(cleaned[i].product_min_rate)
             /\ IsFinite(cleaned[i].avg_price)
    /\ pc = "pv_cleaned" =>
          \A i \in 1..Len(cleaned) :
             /\ IsFinite(cleaned[i].qty)
             /\ IsFinite(cleaned[i].max_rate)
             /\ IsFinite(cleaned[i].min_rate)
             /\ IsFinite(cleaned[i].avg_rate)

(* what the cleaning stage that led to pc leaves of the sheet t *)
CleanedBy(stage, t) == IF stage = "va_cleaned" THEN clean(t) ELSE pv_clean(t)

(* the sheets made of the first rows of t *)
Prefixes(t) == {SubSeq(t, 1, k) : k \in 0..Len(t)}

(* C16: a row whose max rate text is '&nbsp;' is left out of the cleaned   *)
(* stream without the cleaning raising, and it is counted: the number of   *)
(* excluded rows is available after cleaning, that is, what the stage      *)
(* leaves behind (the cleaned frame) tells it, so two sheets cleaned to    *)
(* the same frame have the same count.                                     *)
C16_PlaceholderRowCounted ==
    (/\ pc \in {"va_cleaned", "pv_cleaned"}
     /\ \E i \in 1..Len(table) : table[i].product_max_rate = NBSP)
       => /\ ~raised
          /\ cleaned = CleanedBy(pc, SelectSeq(table,
                                    LAMBDA r : r.product_max_rate # NBSP))
          /\ \A t \in Prefixes(table) :
                CleanedBy(pc, t) = cleaned
                   => Len(t) - Len(CleanedBy(pc, t)) = Len(table) - Len(cleaned)

(* the rows are in non-increasing order of their column keycol and the    *)
(* first one carries the largest value of the bucket                       *)
DescendingFromMax(rows, bucket, keycol) ==
    /\ \A i, j \in 1..Len(rows) :
          i < j => ~FLess(rows[i][keycol], rows[j][keycol])
    /\ rows # <<>> =>
          \A k \in 1..Len(bucket) : ~FLess(rows[1][keycol], bucket[k][keycol])

(* ranked rows [row, rank] carry the ranks 1, 2, ..., k in this order *)
DenseRanks(ranked) == \A i \in 1..Len(ranked) : ranked[i].rank = i

(* C17: in every bucket's ranking the ranks are exactly 1, 2, ..., k for   *)
(* its k rows, the rows are in non-increasing order of the ranking key,    *)
(* and rank 1 carries the bucket's maximum key.                            *)
C17_DenseRanksDescending ==
    /\ pc = "pv_done" =>
          \A ym \in DOMAIN result :
             /\ DenseRanks(result[ym])
             /\ DescendingFromMax(Col(result[ym], "row"), InYearMonth(scored, ym),
                                  "profit_score")
    /\ pc = "ft_top" =>
          \A m \in DOMAIN result :
             /\ DenseRanks(result[m])
             /\ DescendingFromMax(Col(result[m], "row"), InMonth(monthly, m),
                                  "revenue_per_acre")
    /\ pc = "va_analyzed" =>
          \A c \in RankingCriteria : \A m \in DOMAIN result[c] :
             LET rows == SelectSeq(report,
                            LAMBDA r : r.Month = PeriodStr(m) /\ r.Criteria = c)
             IN  /\ Len(rows) = Len(result[c][m])
                 /\ \A i \in 1..Len(rows) :
                       /\ rows[i].Rank = i
                       /\ rows[i].Vegetable_Marathi = result[c][m][i].product_name
                 /\ DescendingFromMax(result[c][m], InMonth(monthly, m), ColumnOf(c))

(* a month of profitable_vegetables with two vegetables of different      *)
(* scores: ranks 1 and 2, the larger score first                           *)
C17_Witness ==
    /\ pc = "pv_done"
    /\ \E ym \in DOMAIN result :
          /\ Len(result[ym]) = 2
          /\ result[ym][1].rank = 1
          /\ result[ym][2].rank = 2
          /\ FLess(result[ym][2].row.profit_score, result[ym][1].row.profit_score)

(* no row of the bucket left out of the ranking has a strictly larger     *)
(* value of keycol than a row of the ranking                               *)
NoLargerOmitted(ranking, bucket, keycol) ==
    \A i \in 1..Len(ranking), k \in 1..Len(bucket) :
       (\A j \in 1..Len(ranking) : ranking[j] # bucket[k])
          => ~FLess(ranking[i][keycol], bucket[k][keycol])

(* C18: RankingStrategyFactory.create returns a strategy for every member  *)
(* of RankingCriteria without failing, and that strategy's rank(df, n)     *)
(* returns rows in descending order of the criterion's own column          *)
(* (avg_price, total_quantity, per_acre_production), no omitted row having *)
(* a strictly larger value than a returned one.                            *)
C18_StrategyOrdersByOwnField ==
    /\ \A c \in RankingCriteria : ~create_raises(c)
    /\ pc = "va_ranked" =>
          \A m \in DOMAIN result :
             /\ \A i, j \in 1..Len(result[m]) :
                   i < j => ~FLess(result[m][i][ColumnOf(arg.criteria)],
                                   result[m][j][ColumnOf(arg.criteria)])
             /\ NoLargerOmitted(result[m], InMonth(monthly, m),
                                ColumnOf(arg.criteria))

(* the quantity strategy asked for the top 1 of a month of two vegetables  *)
(* keeps the one of the larger quantity although its price is the smaller  *)
C18_Witness ==
    /\ pc = "va_ranked"
    /\ arg.criteria = "quantity"
    /\ arg.n = 1
    /\ \E m \in DOMAIN result :
          /\ Len(result[m]) = 1
          /\ \E k \in 1..Len(InMonth(monthly, m)) :
                /\ FLess(InMonth(monthly, m)[k].total_quantity,
                         result[m][1].total_quantity)
                /\ FLess(result[m][1].avg_price, InMonth(monthly, m)[k].avg_price)

---------------------------------------------------------------------------
(* The two lookups of vegetable_analysis.py applied to a column of names,  *)
(* as aggregate_by_month applies them, and the vocabulary list             *)

MaxNames == 2

(* the names of both dictionaries, a fruit, the name of the test and the   *)
(* empty name                                                              *)
LookupNames ==
    DOMAIN VEGETABLES \cup DOMAIN PRODUCTION_DATA \cup {"amba", "NonExistent", ""}

LookupInit ==
    /\ pc = "names"
    /\ arg = <<>>
    /\ result = <<>>
    /\ raised = FALSE
    /\ table = <<>>
    /\ cleaned = <<>>
    /\ monthly = <<>>
    /\ scored = <<>>
    /\ report = <<>>

(* one more name in the column *)
AddName ==
    /\ pc = "names"
    /\ Len(arg) < MaxNames
    /\ \E name \in LookupNames : arg' = Append(arg, name)
    /\ UNCHANGED <<pc, result, raised, table, cleaned, monthly, scored, report>>

(* column.apply(get_english_name): dict.get has no raising path for a str *)
Apply_get_english_name ==
    /\ pc = "names"
    /\ result' = [i \in 1..Len(arg) |-> get_english_name(arg[i])]
    /\ raised' = FALSE
    /\ pc' = "get_english_name"
    /\ UNCHANGED <<arg, table, cleaned, monthly, scored, report>>

(* column.apply(get_production): dict.get has no raising path for a str *)
Apply_get_production ==
    /\ pc = "names"
    /\ result' = [i \in 1..Len(arg) |-> get_production(arg[i])]
    /\ raised' = FALSE
    /\ pc' = "get_production"
    /\ UNCHANGED <<arg, table, cleaned, monthly, scored, report>>

(* MarathiVegetableFilter.get_vegetable_names() *)
Call_get_vegetable_names ==
    /\ pc = "names"
    /\ result' = get_vegetable_names
    /\ raised' = FALSE
    /\ pc' = "get_vegetable_names"
    /\ UNCHANGED <<arg, table, cleaned, monthly, scored, report>>

LookupNext ==
    \/ AddName
    \/ Apply_get_english_name
    \/ Apply_get_production
    \/ Call_get_vegetable_names

LookupSpec == LookupInit /\ [][LookupNext]_vars

(* C19: PerAcreProductionProvider.get_production is a pure lookup: a name  *)
(* of the productivity table gets the table's figure ('Tomato' gets 150),  *)
(* a name outside the table gets None (written NaN), and nothing is        *)
(* raised.                                                                 *)
C19_ProductionLookup ==
    pc = "get_production" =>
       /\ ~raised
       /\ Len(result) = Len(arg)
       /\ \A i \in 1..Len(arg) :
             /\ arg[i] = "Tomato" => result[i] = <<150, 1>>
             /\ arg[i] = "Onion" => result[i] = <<100, 1>>
             /\ arg[i] = "Okra" => result[i] = <<50, 1>>
             /\ arg[i] \notin {"Tomato", "Onion", "Okra"} => result[i] = NaN

(* 'Tomato' and 'NonExistent' looked up in one column: 150 and None *)
C19_Witness ==
    /\ pc = "get_production"
    /\ arg = <<"Tomato", "NonExistent">>
    /\ result = <<Int2F(150), NaN>>

(* C20: get_vegetable_names returns every key of the vocabulary;           *)
(* get_english_name maps a vocabulary name to its canonical name (the      *)
(* Marathi name of onion to 'Onion') and returns a name outside the        *)
(* vocabulary unchanged, without raising.                                  *)
C20_VocabularyLookup ==
    /\ pc = "get_vegetable_names" =>
          /\ ~raised
          /\ {"kanda", "bhendi", "tomato"} \subseteq result
    /\ pc = "get_english_name" =>
          /\ ~raised
          /\ Len(result) = Len(arg)
          /\ \A i \in 1..Len(arg) :
                /\ arg[i] = "kanda" => result[i] = "Onion"
                /\ arg[i] = "bhendi" => result[i] = "Okra"
                /\ arg[i] = "tomato" => result[i] = "Tomato"
                /\ arg[i] \notin {"kanda", "bhendi", "tomato"} => result[i] = arg[i]

(* the Marathi name of onion and a fruit's name looked up in one column *)
C20_Witness ==
    /\ pc = "get_english_name"
    /\ arg = <<"kanda", "amba">>
    /\ result = <<"Onion", "amba">>

---------------------------------------------------------------------------
(* VegetableAnalysisServiceBuilder and the service it builds.  Here arg is *)
(* the builder's _filepath (<<>> for None, <<p>> once set), the files on   *)
(* disk, the files opened so far and the exception of the last call;       *)
(* result is the service built (<<>> while there is none).                 *)

NoFilepath == <<>>

Filepaths ==
    {"", " ", "/tmp/inputs/product_all.xlsx", "product_all.xlsx", "missing.xlsx"}

(* any set of the non-empty paths can be the files that exist *)
Disks == SUBSET (Filepaths \ {""})

(* a build that rejects only the filepath never set *)
build_raises_only_none(filepath) == filepath = NoFilepath

(* if not self._filepath: None and '' are falsy *)
build_raises(filepath) == filepath = NoFilepath \/ filepath[1] = ""

(* ExcelDataLoader(self._filepath) keeps the path, the service keeps the   *)
(* loader                                                                  *)
build(filepath) ==
    IF build_raises(filepath) THEN <<>> ELSE <<[loader_filepath |-> filepath[1]]>>

BuilderInit ==
    /\ pc = "builder"
    /\ \E disk \in Disks :
          arg = [filepath |-> NoFilepath, disk |-> disk, opened |-> {},
                 exception |-> "none"]
    /\ result = <<>>
    /\ raised = FALSE
    /\ table = <<>>
    /\ cleaned = <<>>
    /\ monthly = <<>>
    /\ scored = <<>>
    /\ report = <<>>

With_filepath ==
    /\ pc = "builder"
    /\ \E filepath \in Filepaths : arg' = [arg EXCEPT !.filepath = <<filepath>>]
    /\ UNCHANGED <<pc, result, raised, table, cleaned, monthly, scored, report>>

(* build(): ValueError, or the service; no constructor opens a file *)
Build ==
    /\ pc = "builder"
    /\ raised' = build_raises(arg.filepath)
    /\ result' = build(arg.filepath)
    /\ arg' = [arg EXCEPT !.exception = IF raised' THEN "ValueError" ELSE "none"]
    /\ pc' = IF raised' THEN "build_failed" ELSE "built"
    /\ UNCHANGED <<table, cleaned, monthly, scored, report>>

(* analyze() of a service whose file exists: the sheet is read, cleaned    *)
(* and reported                                                            *)
Service_analyze ==
    /\ pc = "built"
    /\ result[1].loader_filepath \in arg.disk
    /\ arg' = [arg EXCEPT !.opened = @ \cup {result[1].loader_filepath}]
    /\ \E sheet \in {<<>>} \cup {<<r>> : r \in Rows} : table' = sheet
    /\ cleaned' = clean(table')
    /\ monthly' = aggregate_by_month(cleaned')
    /\ report' = generate_full_report(cleaned')
    /\ pc' = "analyzed"
    /\ UNCHANGED <<result, scored, raised>>

(* analyze() of a service whose file does not exist: read_excel raises *)
Service_analyze_missing ==
    /\ pc = "built"
    /\ result[1].loader_filepath \notin arg.disk
    /\ arg' = [arg EXCEPT !.opened = @ \cup {result[1].loader_filepath},
                          !.exception = "FileNotFoundError"]
    /\ raised' = TRUE
    /\ pc' = "analyze_failed"
    /\ UNCHANGED <<result, table, cleaned, monthly, scored, report>>

BuilderNext ==
    \/ With_filepath
    \/ Build
    \/ Service_analyze
    \/ Service_analyze_missing

BuilderSpec == BuilderInit /\ [][BuilderNext]_vars

(* C21: build() with no filepath or an empty filepath set raises           *)
(* ValueError and constructs no service; with a non-empty filepath set it  *)
(* returns a service for that path without opening the file.  The          *)
(* configuration error shows at build(), before any analyze().             *)
C21_BuildValidatesEagerly ==
    /\ pc \in {"built", "build_failed"} =>
          (pc = "build_failed" <=> arg.filepath \in {NoFilepath, <<"">>})
    /\ pc = "build_failed" =>
          /\ raised
          /\ arg.exception = "ValueError"
          /\ result = <<>>
          /\ arg.opened = {}
    /\ pc = "built" =>
          /\ ~raised
          /\ result = <<[loader_filepath |-> arg.filepath[1]]>>
          /\ arg.opened = {}
    /\ pc \in {"analyzed", "analyze_failed"} =>
          arg.filepath \notin {NoFilepath, <<"">>}

(* build() after with_filepath('') fails with no service and no file       *)
(* opened                                                                  *)
C21_Witness ==
    /\ pc = "build_failed"
    /\ arg.filepath = <<"">>
    /\ raised
    /\ result = <<>>

---------------------------------------------------------------------------
(* crop_rate_analysis.py and march_crop_analysis.py: the March summaries.  *)
(* In the states of these scripts cleaned is the parsed March rows,        *)
(* monthly the group statistics as agg computes them, scored the frame     *)
(* after .round(2) and result the frame after sort_values.                 *)

NamesOf(df) ==
    LET ks == {df[i].product_name : i \in 1..Len(df)}
    IN  SortedSeq(ks, {p \in ks \X ks : StrLess(p[1], p[2])})

OfName(df, name) == SelectSeq(df, LAMBDA r : r.product_name = name)

(* the orders of the rows that have the rows of larger value first and the *)
(* rows without a value last: sort_values(column, ascending=False), whose  *)
(* default quicksort leaves the order of rows of equal value open          *)
SortValuesDesc(rows, column) ==
    LET n == Len(rows)
        perms == {f \in [1..n -> 1..n] : \A i, j \in 1..n : i # j => f[i] # f[j]}
        sorted(f) ==
            \A i, j \in 1..n :
               i < j =>
                  /\ ~FLess(rows[f[i]][column], rows[f[j]][column])
                  /\ IsNaN(rows[f[i]][column]) => IsNaN(rows[f[j]][column])
    IN  {[i \in 1..n |-> rows[f[i]]] : f \in {g \in perms : sorted(g)}}

(* analyze_march_crop_rates, lines 18-31: the parsed rows of March *)
cr_march_data(df) ==
    LET parsed ==
            [i \in 1..Len(df) |->
                LET mx == clean_rate(df[i].product_max_rate)
                    mn == clean_rate(df[i].product_min_rate)
                IN  [rate_date |-> df[i].rate_date,
                     code_number |-> df[i].code_number,
                     product_name |-> df[i].product_name,
                     max_rate |-> mx,
                     min_rate |-> mn,
                     avg_rate |-> FDiv(FAdd(mx, mn), Int2F(2)),
                     month |-> DtMonth(df[i].rate_date)]]
    IN  SelectSeq(parsed, LAMBDA r : r.month = 3)

(* lines 34-38: groupby('product_name').agg of the three means *)
cr_group_means(march_data) ==
    LET names == NamesOf(march_data)
    IN  [k \in 1..Len(names) |->
            LET g == OfName(march_data, names[k])
            IN  [product_name |-> names[k],
                 max_rate |-> PdMean(Col(g, "max_rate")),
                 min_rate |-> PdMean(Col(g, "min_rate")),
                 avg_rate |-> PdMean(Col(g, "avg_rate"))]]

(* line 38: .round(2) *)
cr_round(means) ==
    [k \in 1..Len(means) |->
        [product_name |-> means[k].product_name,
         max_rate |-> Round2(means[k].max_rate),
         min_rate |-> Round2(means[k].min_rate),
         avg_rate |-> Round2(means[k].avg_rate)]]

cr_raises(df) ==
    \E i \in 1..Len(df) :
       \/ clean_rate_raises(df[i].product_max_rate)
       \/ clean_rate_raises(df[i].product_min_rate)

(* march_crop_analysis.load_and_prepare_data and the March filter of       *)
(* analyze_march_rates                                                     *)
ma_march_data(df) ==
    LET parsed ==
            [i \in 1..Len(df) |->
                LET mx == march_extract_rate(df[i].product_max_rate)
                    mn == march_extract_rate(df[i].product_min_rate)
                IN  [rate_date |-> df[i].rate_date,
                     code_number |-> df[i].code_number,
                     product_name |-> df[i].product_name,
                     max_rate |-> mx,
                     min_rate |-> mn,
                     avg_rate |-> FDiv(FAdd(mx, mn), Int2F(2)),
                     month |-> DtMonth(df[i].rate_date),
                     year |-> df[i].rate_date[1]]]
    IN  SelectSeq(parsed, LAMBDA r : r.month = 3)

(* the sample variance (ddof = 1) of the values of a column *)
SampleVar(s) ==
    LET v == NotNaN(s)
        m == PdMean(s)
    IN  IF Len(v) < 2 THEN NaN
        ELSE FDiv(FSumSeq([i \in 1..Len(v) |->
                              FMul(FSub(v[i], m), FSub(v[i], m))]),
                  Int2F(Len(v) - 1))

(* the largest natural number whose square is at most n *)
RECURSIVE ISqrt(_)
ISqrt(n) ==
    IF n < 2 THEN n
    ELSE LET r == 2 * ISqrt(n \div 4)
         IN  IF (r + 1) * (r + 1) <= n THEN r + 1 ELSE r

(* the square root of a variance rounded to 2 decimals: 'std' then         *)
(* .round(2)                                                               *)
RoundedStd(var) ==
    IF IsNaN(var) THEN NaN
    ELSE Frac((ISqrt((40000 * var[1]) \div var[2]) + 1) \div 2, 100)

(* analyze_march_rates, lines 41-46: the statistics of every crop, the     *)
(* standard deviation kept as its square                                   *)
ma_crop_stats(march_data) ==
    LET names == NamesOf(march_data)
    IN  [k \in 1..Len(names) |->
            LET g == OfName(march_data, names[k])
            IN  [product_name |-> names[k],
                 avg_max_rate |-> PdMean(Col(g, "max_rate")),
                 highest_max_rate |-> PdMax(Col(g, "max_rate")),
                 lowest_max_rate |-> PdMin(Col(g, "max_rate")),
                 max_rate_var |-> SampleVar(Col(g, "max_rate")),
                 avg_min_rate |-> PdMean(Col(g, "min_rate")),
                 highest_min_rate |-> PdMax(Col(g, "min_rate")),
                 lowest_min_rate |-> PdMin(Col(g, "min_rate")),
                 avg_rate |-> PdMean(Col(g, "avg_rate")),
                 record_count |-> Len(g)]]

(* lines 46-53: .round(2) and the flat column names *)
ma_round(stats) ==
    [k \in 1..Len(stats) |->
        [product_name |-> stats[k].product_name,
         avg_max_rate |-> Round2(stats[k].avg_max_rate),
         highest_max_rate |-> Round2(stats[k].highest_max_rate),
         lowest_max_rate |-> Round2(stats[k].lowest_max_rate),
         max_rate_std |-> RoundedStd(stats[k].max_rate_var),
         avg_min_rate |-> Round2(stats[k].avg_min_rate),
         highest_min_rate |-> Round2(stats[k].highest_min_rate),
         lowest_min_rate |-> Round2(stats[k].lowest_min_rate),
         avg_rate |-> Round2(stats[k].avg_rate),
         record_count |-> stats[k].record_count]]

ma_raises(df) ==
    \E i \in 1..Len(df) :
       \/ march_extract_rate_raises(df[i].product_max_rate)
       \/ march_extract_rate_raises(df[i].product_min_rate)

(* crop_rate_analysis.analyze_march_crop_rates *)
CR_Analyze ==
    /\ pc = "load"
    /\ cleaned' = cr_march_data(table)
    /\ monthly' = cr_group_means(cleaned')
    /\ scored' = cr_round(monthly')
    /\ result' \in SortValuesDesc(scored', "avg_rate")
    /\ raised' = cr_raises(table)
    /\ pc' = "cr_done"
    /\ UNCHANGED <<table, arg, report>>

(* march_crop_analysis: load_and_prepare_data, analyze_march_rates *)
MA_Analyze ==
    /\ pc = "load"
    /\ cleaned' = ma_march_data(table)
    /\ monthly' = ma_crop_stats(cleaned')
    /\ scored' = ma_round(monthly')
    /\ result' \in SortValuesDesc(scored', "avg_rate")
    /\ raised' = ma_raises(table)
    /\ pc' = "ma_done"
    /\ UNCHANGED <<table, arg, report>>

---------------------------------------------------------------------------
(* Every script on sheets of March and June rows, some of them with a      *)
(* placeholder for a rate, and one name under two codes                    *)

MaxStatRows == 2

StatDates == {<<2024, 3, 5>>, <<2024, 6, 5>>}

StatProducts == {<<2001, "bhendi">>, <<2002, "bhendi">>, <<2003, "tomato">>}

StatRows ==
    {[rate_date |-> d, code_number |-> p[1], product_name |-> p[2],
      product_quantity |-> <<"5", "0">>, product_max_rate |-> mx,
      product_min_rate |-> mn] :
        d \in StatDates, p \in StatProducts,
        mx \in {Txt1200, NBSP}, mn \in {Txt1000, NBSP}}

LoadStatRow ==
    /\ pc = "load"
    /\ Len(table) < MaxStatRows
    /\ \E r \in StatRows : table' = Append(table, r)
    /\ UNCHANGED <<pc, cleaned, monthly, scored, result, arg, raised, report>>

StatsNext ==
    \/ LoadStatRow
    \/ VA_Analyze
    \/ PV_Run
    \/ FT_Profitability
    \/ June_Main
    \/ CR_Analyze
    \/ MA_Analyze

StatsSpec == Init /\ [][StatsNext]_vars

CleanRateOf == [t \in CellTexts |-> clean_rate(t)]

MarchExtractRateOf == [t \in CellTexts |-> march_extract_rate(t)]

(* the rows of the sheet whose two rate texts the parser reads *)
GoodRows(df, parser) ==
    SelectSeq(df, LAMBDA r : /\ ~IsNaN(parser[r.product_max_rate])
                             /\ ~IsNaN(parser[r.product_min_rate]))

(* every group of the summaries has the statistics of the reference        *)
(* summaries of its key, and the statistics of no observation (no mean, a  *)
(* zero sum, a zero count) when the reference has no such group            *)
SameOrEmptyStats(actual, ref, keycols, meancols, sumcols, countcols) ==
    \A i \in 1..Len(actual) :
       LET same == {j \in 1..Len(ref) :
                       \A c \in keycols : ref[j][c] = actual[i][c]}
       IN  IF same # {}
           THEN \A j \in same : \A c \in meancols \cup sumcols \cup countcols :
                   actual[i][c] = ref[j][c]
           ELSE /\ \A c \in meancols : IsNaN(actual[i][c])
                /\ \A c \in sumcols : actual[i][c] = Int2F(0)
                /\ \A c \in countcols : actual[i][c] = 0

(* C22: in every script an observation whose max rate text or min rate     *)
(* text is unparseable contributes to no statistic of its group: the mean  *)
(* rates and the total volume of every group are those of the sheet        *)
(* without such observations.                                              *)
C22_UnparseableRowsContributeNothing ==
    /\ pc = "va_analyzed" =>
          SameOrEmptyStats(monthly,
             aggregate_by_month(clean(GoodRows(table, ParsePriceOf))),
             {"month", "product_name"}, {"avg_price"}, {"total_quantity"}, {})
    /\ pc = "pv_done" =>
          SameOrEmptyStats(monthly,
             pv_monthly(pv_clean(GoodRows(table, ParseRsOf))),
             {"year_month", "code_number", "product_name"},
             {"avg_price"}, {"total_volume"}, {"n_days"})
    /\ pc = "ft_prof" =>
          SameOrEmptyStats(monthly,
             calculate_profitability(
                load_and_prepare_data(GoodRows(table, ExtractRateOf))),
             {"month", "product_name"}, {"avg_rate", "max_rate", "min_rate"},
             {}, {})
    /\ pc = "june_done" =>
          SameOrEmptyStats(monthly,
             june_agg(june_veggies(GoodRows(table, ExtractRateOf))),
             {"product_name"}, {"avg_rate"}, {"volume"}, {})
    /\ pc = "cr_done" =>
          SameOrEmptyStats(monthly,
             cr_group_means(cr_march_data(GoodRows(table, CleanRateOf))),
             {"product_name"}, {"avg_rate", "max_rate", "min_rate"}, {}, {})
    /\ pc = "ma_done" =>
          SameOrEmptyStats(monthly,
             ma_crop_stats(ma_march_data(GoodRows(table, MarchExtractRateOf))),
             {"product_name"}, {"avg_rate", "avg_max_rate", "avg_min_rate"},
             {}, {"record_count"})

---------------------------------------------------------------------------
(* Rates written with thousands separators, read by every parser *)

MaxHundreds == 20

(* the rates 1000, 1100, ... and a rate of seven digits *)
SeparatedRates == {1000 + 100 * i : i \in 0..MaxHundreds} \cup {1234567}

(* the digits in groups of three from the right, a comma between them *)
RECURSIVE WithSeparators(_)
WithSeparators(digits) ==
    IF Len(digits) <= 3 THEN digits
    ELSE WithSeparators(SubSeq(digits, 1, Len(digits) - 3))
            \o <<",">> \o SubSeq(digits, Len(digits) - 2, Len(digits))

(* f"Rs. {n:,}/-" *)
FormatSeparated(n) ==
    <<"R", "s", ".", " ">> \o WithSeparators(NatStr(n)) \o <<"/", "-">>

(* a rate is written into a cell with its separators *)
SeparatedCell ==
    /\ pc = "cell"
    /\ \E n \in SeparatedRates :
          arg' = [n |-> [float |-> FALSE, val |-> Int2F(n)],
                  text |-> FormatSeparated(n)]
    /\ pc' = "text"
    /\ UNCHANGED <<table, cleaned, monthly, scored, result, raised, report>>

SeparatorNext ==
    \/ SeparatedCell
    \/ Call_parse_price
    \/ Call_extract_rate
    \/ Call_parse_rs
    \/ Call_clean_rate
    \/ Call_march_extract_rate

SeparatorSpec == ParserInit /\ [][SeparatorNext]_vars

(* C23: every rate parser, tolerant or strict, reads a rate written with   *)
(* comma separators inside the decoration ('Rs. 1,700/-') as the full      *)
(* value with the separators removed (1700).                               *)
C23_SeparatorsStripped ==
    pc \in StrictParsers \cup TolerantParsers
       => (~raised /\ result = arg.n.val)

---------------------------------------------------------------------------
(* The March scripts on sheets of two crops with many observations each,   *)
(* whose rates are a rupee apart, so that the means of the crops come      *)
(* close to each other                                                     *)

MaxDays == 9

Txt10 == <<"R", "s", ".", " ", "1", "0", "/", "-">>

Txt11 == <<"R", "s", ".", " ", "1", "1", "/", "-">>

(* n March rows of a product, the first h of them with the higher max rate *)
CropRows(product, n, h) ==
    [i \in 1..n |->
        [rate_date |-> <<2024, 3, 5>>,
         code_number |-> product[1],
         product_name |-> product[2],
         product_quantity |-> <<"5", "0">>,
         product_max_rate |-> IF i <= h THEN Txt11 ELSE Txt10,
         product_min_rate |-> Txt10]]

MarchSheets ==
    {CropRows(<<2001, "bhendi">>, c[1], c[2]) \o CropRows(<<2003, "tomato">>, c[3], c[4]) :
        c \in {d \in (0..MaxDays) \X (0..MaxDays) \X (0..MaxDays) \X (0..MaxDays) :
                  d[2] <= d[1] /\ d[4] <= d[3]}}

MarchInit ==
    /\ table \in MarchSheets
    /\ pc = "load"
    /\ cleaned = <<>>
    /\ monthly = <<>>
    /\ scored = <<>>
    /\ result = <<>>
    /\ arg = NoArg
    /\ raised = FALSE
    /\ report = <<>>

MarchNext ==
    \/ CR_Analyze
    \/ MA_Analyze

MarchSpec == MarchInit /\ [][MarchNext]_vars

(* the mean rate of a crop as agg computed it, before any rounding *)
TrueMean(name) ==
    monthly[CHOOSE k \in 1..Len(monthly) : monthly[k].product_name = name].avg_rate

(* C24: the order in which the March scripts rank the crops is the order   *)
(* of the unrounded group means: a crop is never ranked before a crop of   *)
(* a strictly larger true mean rate, however close the two means are.      *)
C24_RankedByTrueMeans ==
    pc \in {"cr_done", "ma_done"} =>
       \A i, j \in 1..Len(result) :
          i < j => ~FLess(TrueMean(result[i].product_name),
                          TrueMean(result[j].product_name))

---------------------------------------------------------------------------
(* The two monthly aggregations on sheets with missing quantities,         *)
(* placeholder rates and one name under two codes                          *)

MaxAggRows == 2

AggRows ==
    {[rate_date |-> d, code_number |-> p[1], product_name |-> p[2],
      product_quantity |-> q, product_max_rate |-> mx,
      product_min_rate |-> Txt1000] :
        d \in {<<2024, 6, 5>>, <<2024, 6, 6>>},
        p \in {<<2001, "bhendi">>, <<2002, "bhendi">>},
        q \in {<<"5", "0">>, NA},
        mx \in {Txt1200, NBSP}}

LoadAggRow ==
    /\ pc = "load"
    /\ Len(table) < MaxAggRows
    /\ \E r \in AggRows : table' = Append(table, r)
    /\ UNCHANGED <<pc, cleaned, monthly, scored, result, arg, raised, report>>

AggNext ==
    \/ LoadAggRow
    \/ PV_Run
    \/ VA_Analyze

AggSpec == Init /\ [][AggNext]_vars

(* C25: every summary row of the monthly aggregation of                    *)
(* profitable_vegetables has n_days >= 1, so that                          *)
(* per_acre = total_volume / n_days never divides by zero.                 *)
C25_TradingDaysPositive ==
    pc = "pv_done" =>
       \A k \in 1..Len(monthly) :
          /\ monthly[k].n_days >= 1
          /\ monthly[k].per_acre =
                FDiv(monthly[k].total_volume, Int2F(monthly[k].n_days))

(* a group of two observations, one of them without a quantity: the        *)
(* summary counts the other one                                            *)
C25_Witness ==
    /\ pc = "pv_done"
    /\ Len(table) = 2
    /\ table[1].product_quantity = NA
    /\ table[2].product_quantity # NA
    /\ table[1].code_number = table[2].code_number
    /\ Len(monthly) = 1
    /\ monthly[1].n_days = 1

(* no two rows of the frame have the same bucket and the same name *)
OnePerBucketAndName(rows, bucketcol) ==
    \A i, j \in 1..Len(rows) :
       (rows[i][bucketcol] = rows[j][bucketcol]
           /\ rows[i].product_name = rows[j].product_name) => i = j

(* C26: the aggregation yields at most one summary row per month bucket    *)
(* and commodity name, and no commodity appears twice in the ranking of a  *)
(* bucket, also when the rows of one name carry different codes.           *)
C26_OneRowPerBucketAndName ==
    /\ pc = "pv_done" =>
          /\ OnePerBucketAndName(monthly, "year_month")
          /\ \A ym \in DOMAIN result :
                OnePerBucketAndName(Col(result[ym], "row"), "year_month")
    /\ pc = "va_analyzed" =>
          /\ OnePerBucketAndName(monthly, "month")
          /\ \A c \in RankingCriteria : \A m \in DOMAIN result[c] :
                OnePerBucketAndName(result[c][m], "month")

=============================================================================
